---- MODULE Spec2Model ----
(***************************************************************************)
(* jinaga-export-postgres: the export pipeline of index.ts (main,          *)
(* streamFacts and its Readable.read, findPredecessor, stripIdFromFact,    *)
(* writeFactual) together with database.ts (connectToDatabase,             *)
(* verifyDatabase, disconnectFromDatabase).                                *)
(*                                                                         *)
(* A JavaScript object is a record (a function from its keys), so that the *)
(* presence of a key is observable.  A JSON object whose key order matters *)
(* (data->'predecessors', data->'fields') is a sequence of entries in key  *)
(* order.  Text is a sequence of string tokens; every piece that           *)
(* String.slice can cut is tokenised down to single characters.            *)
(***************************************************************************)
EXTENDS Integers, Sequences, FiniteSets, TLC

\* ------------------------------------------------------------------ bounds
NumFacts == 3       \* rows of the fact table
MaxSeqLen == 2      \* longest declared sequence of predecessor references
MaxBatch == 2       \* largest batch size a run is started with
HighWaterMark == 2  \* objects the Readable buffers before it stops calling read()

\* ------------------------------------------------ the fact table (the input)
FactIds == 1..NumFacts

\* fact_type.name of a fact: the README's Site <- Post <- Title chain.
TypeOf(i) == IF i = 1 THEN "Blog.Site" ELSE IF i = 2 THEN "Blog.Post" ELSE "Blog.Post.Title"

\* fact.hash of a fact.
HashOf(i) == "h" \o ToString(i)

\* A declared predecessor reference {hash, type}, as stored in data->'predecessors'.
Ref(i) == [hash |-> HashOf(i), type |-> TypeOf(i)]

\* References that no fact of the table answers: the hash of fact i under another
\* type, and the type of fact i under another hash.
HashOnly(i) == [hash |-> HashOf(i), type |-> "Blog.Other"]
TypeOnly(i) == [hash |-> "h0", type |-> TypeOf(i)]

\* A field value: a JSON string, or a nested JSON object, with its text.
StringValue(text) == [kind |-> "string", text |-> text]
ObjectValue(text) == [kind |-> "object", text |-> text]

\* data->'fields' of a fact, in key order.
FieldsOf(i) ==
    IF i = 1 THEN << [key |-> "domain", value |-> StringValue("example.com")] >>
    ELSE IF i = 2 THEN << [key |-> "createdAt", value |-> StringValue("2023-05-20T10:30:00Z")] >>
    ELSE << [key |-> "value", value |-> StringValue("Hello")] >>

\* data->'fields' holding a nested object: { "meta": { "a": 1 } }.
NestedFields == << [key |-> "meta", value |-> ObjectValue("{\"a\":1}")] >>

\* One entry of data->'predecessors': a role holding one reference (isArray
\* FALSE, refs of length 1) or an array of references.
Single(k, r) == [key |-> k, isArray |-> FALSE, refs |-> << r >>]
Multiple(k, rs) == [key |-> k, isArray |-> TRUE, refs |-> rs]

SeqsUpTo(S, n) == UNION { [1..m -> S] : m \in 0..n }

Min(S) == CHOOSE m \in S : \A n \in S : m <= n

\* --------------------------------------------------------- the export query
\* jsonb_build_object('hash', hash, 'type', type, 'fact_id', fact_id) of the
\* predecessor CTE.
Candidate(i) == [hash |-> HashOf(i), type |-> TypeOf(i), fact_id |-> i]

\* A jsonb value of the predecessor_array column: a JSON array, or another
\* JSON value that has no Array methods.
JsonArray(items) == [kind |-> "array", items |-> items]
EmptyObject == [kind |-> "object", items |-> << >>]    \* '{}'::jsonb
Null == [kind |-> "null", items |-> << >>]

\* Array.prototype.find exists on arrays only.
HasFind(v) == v.kind = "array"

RECURSIVE SortedSeq(_)
SortedSeq(S) == IF S = {} THEN << >> ELSE << Min(S) >> \o SortedSeq(S \ {Min(S)})

\* aggregated_predecessors: jsonb_agg over the edge rows of one successor, one
\* group per successor that has at least one edge row (GROUP BY), so the
\* aggregate is never an empty array.  The LEFT JOIN yields NULL for a fact
\* without edge rows.  (fact.hash, fact_type_id) is unique, so the order of
\* the aggregate is not observable by findPredecessor; it is taken by fact_id.
AggregatedPredecessors(edges, i) ==
    LET preds == { p \in FactIds : << p, i >> \in edges }
        ids == SortedSeq(preds)
    IN  IF preds = {} THEN Null
        ELSE JsonArray([j \in 1..Len(ids) |-> Candidate(ids[j])])

\* COALESCE(ap.predecessor_array, '{}'::jsonb)
Coalesce(v, default) == IF v.kind = "null" THEN default ELSE v

\* One row of the SELECT.
Row(declared, edges, i) ==
    [ fact_id |-> i,
      hash |-> HashOf(i),
      type |-> TypeOf(i),
      fields |-> FieldsOf(i),
      predecessors |-> declared[i],
      predecessor_array |-> Coalesce(AggregatedPredecessors(edges, i), EmptyObject) ]

\* ------------------------------------------------------------- the resolver
Undefined == [undefined |-> TRUE]

FindByHashOnly(predecessorArray, p) ==
    LET hits == { j \in DOMAIN predecessorArray : predecessorArray[j].hash = p.hash }
    IN  IF hits = {} THEN Undefined ELSE predecessorArray[Min(hits)]

FindLast(predecessorArray, p) ==
    LET hits == { j \in DOMAIN predecessorArray :
                    predecessorArray[j].type = p.type /\ predecessorArray[j].hash = p.hash }
    IN  IF hits = {} THEN Undefined
        ELSE predecessorArray[CHOOSE m \in hits : \A n \in hits : n <= m]

\* predecessorArray.find(pa => pa.type === p.type && pa.hash === p.hash): the
\* first matching element, or undefined.
findPredecessor(predecessorArray, p) ==
    LET hits == { j \in DOMAIN predecessorArray :
                    predecessorArray[j].type = p.type /\ predecessorArray[j].hash = p.hash }
    IN  IF hits = {} THEN Undefined ELSE predecessorArray[Min(hits)]

ResolveRoleLastFound(predecessorArray, e) ==
    IF e.refs = << >> THEN [st |-> "ok", entry |-> Multiple(e.key, << >>)]
    ELSE IF ~HasFind(predecessorArray) THEN [st |-> "throw", entry |-> e]
    ELSE IF \E j \in DOMAIN e.refs : findPredecessor(predecessorArray.items, e.refs[j]) = Undefined
         THEN [st |-> "miss", entry |-> e]
    ELSE [st |-> "ok",
          entry |-> Single(e.key, findPredecessor(predecessorArray.items, e.refs[Len(e.refs)]))]

ResolveRoleFindFirst(predecessorArray, e) ==
    IF ~HasFind(predecessorArray) THEN [st |-> "throw", entry |-> e]
    ELSE IF \E j \in DOMAIN e.refs : findPredecessor(predecessorArray.items, e.refs[j]) = Undefined
         THEN [st |-> "miss", entry |-> e]
    ELSE [st |-> "ok",
          entry |-> [e EXCEPT !.refs = [j \in DOMAIN e.refs |->
                                          findPredecessor(predecessorArray.items, e.refs[j])]]]

\* The body of `for (const key in factInfo.predecessors)` for one key.  The
\* first call of findPredecessor on a value that has no find method throws
\* (TypeError: predecessorArray.find is not a function); a miss leaves the
\* role unassigned and breaks out of the loops; otherwise an array role is
\* assigned newPredecessor, the found candidates in the order of the declared
\* array, and a single role is assigned the found candidate.  A role that
\* holds [] never calls findPredecessor.
ResolveRole(predecessorArray, e) ==
    IF e.isArray
    THEN IF e.refs = << >> THEN [st |-> "ok", entry |-> Multiple(e.key, << >>)]
         ELSE IF ~HasFind(predecessorArray) THEN [st |-> "throw", entry |-> e]
         ELSE IF \E j \in DOMAIN e.refs :
                    findPredecessor(predecessorArray.items, e.refs[j]) = Undefined
              THEN [st |-> "miss", entry |-> e]
         ELSE [st |-> "ok",
               entry |-> Multiple(e.key, [j \in DOMAIN e.refs |->
                            findPredecessor(predecessorArray.items, e.refs[j])])]
    ELSE IF ~HasFind(predecessorArray) THEN [st |-> "throw", entry |-> e]
         ELSE IF findPredecessor(predecessorArray.items, e.refs[1]) = Undefined
              THEN [st |-> "miss", entry |-> e]
         ELSE [st |-> "ok",
               entry |-> Single(e.key, findPredecessor(predecessorArray.items, e.refs[1]))]

\* The loop over the roles, in key order, from role k on: it stops at the
\* first role that misses or throws, with the earlier roles already replaced.
RECURSIVE ResolveFrom(_, _, _)
ResolveFrom(predecessors, predecessorArray, k) ==
    IF k > Len(predecessors) THEN [st |-> "ok", predecessors |-> predecessors]
    ELSE LET r == ResolveRole(predecessorArray, predecessors[k])
         IN  IF r.st # "ok" THEN [st |-> r.st, predecessors |-> predecessors]
             ELSE ResolveFrom([predecessors EXCEPT ![k] = r.entry], predecessorArray, k + 1)

\* The body of `for (const row of rows)` up to the push: factInfo with its
\* predecessors replaced, and allPredecessorsFound ("ok"), or the miss, or the
\* exception.
ResolveRow(row) ==
    LET r == ResolveFrom(row.predecessors, row.predecessor_array, 1)
    IN  [ st |-> r.st,
          factInfo |-> [ fact_id |-> row.fact_id,
                         hash |-> row.hash,
                         type |-> row.type,
                         predecessors |-> r.predecessors,
                         fields |-> row.fields ] ]

\* ----------------------------------------------------------- the formatters
KeepId(predecessor) == predecessor

\* const { fact_id, ...stripped } = predecessor
stripIdFromPredecessor(predecessor) ==
    [k \in DOMAIN predecessor \ {"fact_id"} |-> predecessor[k]]

StripHashFromFact(fact) ==
    [k \in DOMAIN fact \ {"hash", "predecessors"} |-> fact[k]] @@
    [predecessors |->
        [j \in DOMAIN fact.predecessors |->
            [fact.predecessors[j] EXCEPT !.refs =
                [i \in DOMAIN @ |-> stripIdFromPredecessor(@[i])]]]]

\* const { fact_id, predecessors, ...stripped } = fact, and every predecessor,
\* single or element of an array, mapped through stripIdFromPredecessor.
stripIdFromFact(fact) ==
    [k \in DOMAIN fact \ {"fact_id", "predecessors"} |-> fact[k]] @@
    [predecessors |->
        [j \in DOMAIN fact.predecessors |->
            [fact.predecessors[j] EXCEPT !.refs =
                [i \in DOMAIN @ |-> stripIdFromPredecessor(@[i])]]]]

\* JSON.stringify of a field value: a string quoted, an object as its JSON
\* text.
JSONStringify(value) ==
    IF value.kind = "string" THEN "\"" \o value.text \o "\"" ELSE value.text

\* `f${p.fact_id}`
FactName(id) == "f" \o ToString(id)

\* Array.prototype.join
RECURSIVE Join(_, _)
Join(tokens, sep) ==
    IF Len(tokens) <= 1 THEN tokens
    ELSE << Head(tokens), sep >> \o Join(Tail(tokens), sep)

\* The text of the `for ... of Object.entries(fact.fields)` loop.
RECURSIVE FieldLines(_)
FieldLines(fields) ==
    IF fields = << >> THEN << >>
    ELSE << "    ", Head(fields).key, ": ", JSONStringify(Head(fields).value), ",", "\n" >>
         \o FieldLines(Tail(fields))

\* The text of the `for ... of Object.entries(fact.predecessors)` loop.
RECURSIVE PredecessorLines(_)
PredecessorLines(predecessors) ==
    IF predecessors = << >> THEN << >>
    ELSE LET e == Head(predecessors)
         IN  (IF e.isArray
              THEN << "    ", e.key, ": ", "[" >>
                   \o Join([i \in DOMAIN e.refs |-> FactName(e.refs[i].fact_id)], ", ")
                   \o << "]", ",", "\n" >>
              ELSE << "    ", e.key, ": ", FactName(e.refs[1].fact_id), ",", "\n" >>)
             \o PredecessorLines(Tail(predecessors))

SliceOffLastOne(output) == SubSeq(output, 1, Len(output) - 1)

\* output.slice(0, -2)
SliceOffLastTwo(output) == SubSeq(output, 1, Len(output) - 2)

\* The header, the field lines, the predecessor lines, the last two
\* characters cut off, and the closing brace with a blank line.
writeFactual(fact) ==
    SliceOffLastTwo(<< "let f", ToString(fact.fact_id), ": ", fact.type, " = ", "{", "\n" >>
                    \o FieldLines(fact.fields)
                    \o PredecessorLines(fact.predecessors))
    \o << "\n", "}", "\n", "\n" >>

\* The map argument main hands to streamFacts for the format.
Map(format, fact) == IF format = "json" THEN stripIdFromFact(fact) ELSE writeFactual(fact)

\* ------------------------------------------------------------ one batch
\* The `for (const row of rows)` loop from row k on: the rows are resolved in
\* order and each row whose predecessors were all found is mapped and pushed;
\* an exception ends the loop.  facts are the factInfo objects handed to map,
\* chunks what was pushed.
RECURSIVE ReadBatchBackwards(_, _, _)
ReadBatchBackwards(fmt, batch, k) ==
    IF k > Len(batch) THEN [threw |-> FALSE, facts |-> << >>, chunks |-> << >>]
    ELSE LET r == ResolveRow(batch[k])
         IN  IF r.st = "throw" THEN [threw |-> TRUE, facts |-> << >>, chunks |-> << >>]
             ELSE LET rest == ReadBatchBackwards(fmt, batch, k + 1)
                  IN  IF r.st = "ok"
                      THEN [rest EXCEPT !.facts = @ \o << r.factInfo >>,
                                        !.chunks = @ \o << Map(fmt, r.factInfo) >>]
                      ELSE rest

RECURSIVE ReadBatchFrom(_, _, _)
ReadBatchFrom(fmt, batch, k) ==
    IF k > Len(batch) THEN [threw |-> FALSE, facts |-> << >>, chunks |-> << >>]
    ELSE LET r == ResolveRow(batch[k])
         IN  IF r.st = "throw" THEN [threw |-> TRUE, facts |-> << >>, chunks |-> << >>]
             ELSE LET rest == ReadBatchFrom(fmt, batch, k + 1)
                  IN  IF r.st = "ok"
                      THEN [rest EXCEPT !.facts = << r.factInfo >> \o @,
                                        !.chunks = << Map(fmt, r.factInfo) >> \o @]
                      ELSE rest

\* cursor.read(batchSize) on a cursor that has yielded pos rows.
CursorRead(rows, pos, size) ==
    SubSeq(rows, pos + 1, IF pos + size <= Len(rows) THEN pos + size ELSE Len(rows))

PushTwice(buffered, chunks) == buffered \o chunks \o chunks

\* this.push(chunk), for the chunks of one batch, on a stream that buffers.
PushAll(buffered, chunks) == buffered \o chunks

\* ------------------------------------------------------ the data channel
\* One write to process.stdout: a piece of framing text and, with it, at most
\* one whole rendered fact.
Written(text, data) == [text |-> text, data |-> data]

StringifyDataAlwaysSep(written, data) == Append(written, Written(",", << data >>))

\* JSONStream.stringify('[', ',', ']'), a chunk arrives: the first is queued as
\* op + JSON.stringify(data), every later one as sep + JSON.stringify(data).
StringifyData(written, data) ==
    Append(written, Written(IF written = << >> THEN "[" ELSE ",", << data >>))

\* JSONStream.stringify('[', ',', ']'), the source ended: op if no chunk ever
\* arrived, then cl.
StringifyEnd(written) ==
    (IF written = << >> THEN << Written("[", << >>) >> ELSE written)
    \o << Written("]", << >>) >>

\* What one chunk handed to the pipe's destination adds to process.stdout:
\* through JSONStream for json, the block itself for factual.
Write(fmt, written, chunk) ==
    IF fmt = "json" THEN StringifyData(written, chunk)
    ELSE Append(written, Written("", << chunk >>))

RECURSIVE WriteAll(_, _, _)
WriteAll(fmt, written, chunks) ==
    IF chunks = << >> THEN written
    ELSE WriteAll(fmt, Write(fmt, written, Head(chunks)), Tail(chunks))

\* The source emitted 'end': the pipe ends its destination.
WriteEnd(fmt, written) == IF fmt = "json" THEN StringifyEnd(written) ELSE written

\* ------------------------------------------------------- the command line
\* process.argv.slice(2) holds twelve arguments when every option is given.
NumArgs == 12

\* An argument is a text in which every dash is a token of its own.
Name(n) == << "-", "-", n >>
Value(v) == << v >>

\* The argument list of the README's usage line, with format f.
ValidArgs(f) ==
    << Name("host"), Value("localhost"), Name("port"), Value("5432"),
       Name("database"), Value("db"), Name("user"), Value("u"),
       Name("password"), Value("p"), Name("format"), Value(f) >>

RECURSIVE Str(_)
Str(tokens) == IF tokens = << >> THEN "" ELSE Head(tokens) \o Str(Tail(tokens))

\* arg.startsWith('--')
StartsWithDashes(arg) == Len(arg) >= 2 /\ arg[1] = "-" /\ arg[2] = "-"

\* args[i].slice(2)
SliceFromTwo(arg) == SubSeq(arg, 3, Len(arg))

\* A property an object does not have.
NoOption == "undefined"

\* The loop `for (let i = 0; i < args.length; i += 2)`: options[key] is the
\* value that follows the last occurrence of --key.
Options(args) ==
    LET pairs == { i \in 1..(Len(args) \div 2) : TRUE }
        key(i) == Str(SliceFromTwo(args[2 * i - 1]))
    IN  [ k \in { key(i) : i \in pairs } |->
            LET last == CHOOSE i \in pairs :
                           key(i) = k /\ \A j \in pairs : key(j) = k => j <= i
            IN  Str(args[2 * last]) ]

OptionOf(options, k) == IF k \in DOMAIN options THEN options[k] ELSE NoOption

parseArgsAnyFormat(args) ==
    IF \/ Len(args) # NumArgs
       \/ \E index \in 0..(Len(args) - 1) :
             index % 2 = 0 /\ ~StartsWithDashes(args[index + 1])
    THEN [exit |-> TRUE, message |-> "Usage:", format |-> NoOption]
    ELSE [exit |-> FALSE, message |-> "", format |-> OptionOf(Options(args), "format")]

\* parseArgs: the usage message and process.exit(1) unless there are twelve
\* arguments of which every even-indexed one starts with two dashes; the
\* invalid-format message and process.exit(1) unless options.format is json
\* or factual; otherwise the options.
parseArgs(args) ==
    IF \/ Len(args) # NumArgs
       \/ \E index \in 0..(Len(args) - 1) :
             index % 2 = 0 /\ ~StartsWithDashes(args[index + 1])
    THEN [exit |-> TRUE, message |-> "Usage:", format |-> NoOption]
    ELSE LET format == OptionOf(Options(args), "format")
         IN  IF format # "json" /\ format # "factual"
             THEN [exit |-> TRUE, message |-> "Invalid format.", format |-> format]
             ELSE [exit |-> FALSE, message |-> "", format |-> format]

\* ------------------------------------------------------------------ state
VARIABLES
    argv,          \* process.argv.slice(2)
    rows,          \* the result of the export query, in the order the cursor yields it
    format,        \* options.format
    batchSize,     \* batchSize of streamFacts
    mainPc,        \* where main() is
    stderr,        \* what console.error has written
    cursorOpen,    \* the cursor was submitted and cursor.close() has not completed
    cursorPos,     \* rows the cursor has yielded
    readPc,        \* where the Readable's async read() is
    reading,       \* the Readable's state.reading
    ended,         \* push(null) was called
    destroyed,     \* the Readable's state.destroyed
    streamError,   \* the error the stream was destroyed with
    endEmitted,    \* 'end' was emitted
    buffer,        \* pushed chunks the pipe has not yet taken
    flowing,       \* the pipe's source is flowing (not paused by a full sink)
    out,           \* chunks written to the pipe's destination
    pushedFacts,   \* history: the factInfo objects handed to map, in order
    stdout         \* what has been written to process.stdout, write by write

vars == << argv, rows, format, batchSize, mainPc, stderr, cursorOpen, cursorPos, readPc,
           reading, ended, destroyed, streamError, endEmitted, buffer, flowing, out,
           pushedFacts, stdout >>

config == << argv, rows, format, batchSize >>
stream == << readPc, reading, ended, destroyed, streamError, endEmitted, buffer, flowing,
             out, pushedFacts, stdout >>

\* ---------------------------------------------------------------- datasets
Orders(S) ==
    { f \in [1..Cardinality(S) -> S] : \A i, j \in DOMAIN f : i # j => f[i] # f[j] }

AllEdges == { e \in FactIds \X FactIds : e[1] < e[2] }

\* What a store records for fact i: a Site has no predecessors, a Post its
\* site, a Title its post and the earlier Titles it replaces.
Recorded(i) ==
    IF i = 1 THEN << >>
    ELSE IF i = 2 THEN << Single("site", Ref(1)) >>
    ELSE << Single("post", Ref(2)),
            Multiple("prior", [j \in 1..(i - 3) |-> Ref(j + 2)]) >>

\* The same with the first role pointing at a fact the store does not hold.
Corrupted(i) ==
    IF i = 1 THEN << >>
    ELSE [Recorded(i) EXCEPT ![1] = Single(@.key, TypeOnly(i - 1))]

\* The references a declared role of fact i may hold.
RefChoices(i) == { Ref(j) : j \in 1..(i - 1) } \cup { HashOnly(i - 1), TypeOnly(i - 1) }

\* Any predecessors object of at most one single role and one array role.
Shapes(i) ==
    LET singles == { Single("post", r) : r \in RefChoices(i) }
        arrays == { Multiple("prior", rs) : rs \in SeqsUpTo(RefChoices(i), MaxSeqLen) }
    IN  { << >> } \cup { << a >> : a \in singles } \cup { << b >> : b \in arrays }
        \cup { << a, b >> : a \in singles, b \in arrays }

\* The edge rows a store inserts with fact i: one per recorded predecessor.
RecordedEdges(i) ==
    { << j, i >> : j \in { j \in 1..(i - 1) :
                             \E k \in DOMAIN Recorded(i) :
                                \E m \in DOMAIN Recorded(i)[k].refs :
                                   Recorded(i)[k].refs[m] = Ref(j) } }

QueryResult(declared, edges, order) ==
    [k \in DOMAIN order |-> Row(declared, edges, order[k])]

\* The command lines of a run in either format, and one with a format the
\* tool does not know.
RunArgs == { ValidArgs("json"), ValidArgs("factual"), ValidArgs("xml") }

\* Command lines around the usage line: any format value, cut short or
\* extended, with a name that lacks its dashes, without --format, with
\* --format given twice, with a value that starts with dashes.
ArgLists ==
    UNION { LET v == ValidArgs(f)
            IN  { v, v \o << Value("x") >>, v \o << Name("x"), Value("y") >> }
                \cup { SubSeq(v, 1, n) : n \in 0..(NumArgs - 1) }
                \cup { [v EXCEPT ![i] = Value("host")] : i \in 1..NumArgs }
                \cup { [v EXCEPT ![i] = << "-", "host" >>] : i \in 1..NumArgs }
                \cup { [v EXCEPT ![NumArgs - 1] = Name("fmt")] }
                \cup { [v EXCEPT ![1] = Name("x")] }
                \cup { [v EXCEPT ![1] = Name("format"), ![2] = Value(g)] :
                          g \in {"json", "factual", "xml"} }
                \cup { [v EXCEPT ![NumArgs - 1] = Name("host"), ![1] = Name("format"),
                                  ![2] = Value(g)] : g \in {"json", "factual", "xml"} }
            : f \in {"json", "factual", "xml", "JSON", ""} }

InitRun ==
    /\ mainPc = "parse"
    /\ format = NoOption
    /\ stderr = << >>
    /\ cursorOpen = FALSE
    /\ cursorPos = 0
    /\ readPc = "idle"
    /\ reading = FALSE
    /\ ended = FALSE
    /\ destroyed = FALSE
    /\ streamError = "none"
    /\ endEmitted = FALSE
    /\ buffer = << >>
    /\ flowing = FALSE
    /\ out = << >>
    /\ pushedFacts = << >>
    /\ stdout = << >>

\* Any store whose facts are recorded or corrupted, with any edge rows, read
\* in any order (the query has no ORDER BY), or a store with an empty fact
\* table, in any batch size, in either format.
Init ==
    /\ \E declared \in [FactIds -> UNION { {Recorded(i), Corrupted(i)} : i \in FactIds }],
          edges \in SUBSET AllEdges,
          order \in Orders(FactIds) \cup { << >> } :
          /\ \A i \in FactIds : declared[i] \in {Recorded(i), Corrupted(i)}
          /\ rows = QueryResult(declared, edges, order)
    /\ argv \in RunArgs
    /\ batchSize \in 1..MaxBatch
    /\ InitRun

\* A consistent store read in fact_id order, except for the last fact, whose
\* predecessors object and edge rows are arbitrary and whose fields object
\* may be empty or hold a nested object.
InitRow ==
    /\ \E shape \in Shapes(NumFacts),
          last \in SUBSET { e \in AllEdges : e[2] = NumFacts },
          fields \in { FieldsOf(NumFacts), << >>, NestedFields } :
          rows = [QueryResult([i \in FactIds |-> IF i = NumFacts THEN shape ELSE Recorded(i)],
                              UNION { RecordedEdges(i) : i \in 1..(NumFacts - 1) } \cup last,
                              [k \in FactIds |-> k])
                    EXCEPT ![NumFacts].fields = fields]
    /\ argv \in RunArgs
    /\ batchSize = MaxBatch
    /\ InitRun

\* Any command line, over a consistent store read in fact_id order.
InitArgs ==
    /\ argv \in ArgLists
    /\ rows = QueryResult([i \in FactIds |-> Recorded(i)],
                          UNION { RecordedEdges(i) : i \in FactIds },
                          [k \in FactIds |-> k])
    /\ batchSize = MaxBatch
    /\ InitRun

\* ------------------------------------------------------------------ main
Alive == mainPc \notin {"exited", "done"}

\* main's catch block: console.error('Error:', ...) and process.exit(1).
MainCatch(log) == Append(log, "Error:")

\* parseArgs returns the options.
ParseArgsReturn ==
    /\ mainPc = "parse"
    /\ ~parseArgs(argv).exit
    /\ format' = parseArgs(argv).format
    /\ mainPc' = "connect"
    /\ UNCHANGED << argv, rows, batchSize, stderr, cursorOpen, cursorPos, stream >>

\* parseArgs writes its message and calls process.exit(1).
ParseArgsExit ==
    /\ mainPc = "parse"
    /\ parseArgs(argv).exit
    /\ stderr' = Append(stderr, parseArgs(argv).message)
    /\ mainPc' = "exited"
    /\ UNCHANGED << config, cursorOpen, cursorPos, stream >>

\* connectToDatabase: client.connect() resolves.
ConnectOk ==
    /\ mainPc = "connect"
    /\ mainPc' = "verify"
    /\ stderr' = Append(stderr, "Connected to PostgreSQL database")
    /\ UNCHANGED << config, cursorOpen, cursorPos, stream >>

\* connectToDatabase: client.connect() rejects; the catch of connectToDatabase
\* logs and rethrows into main's catch.
ConnectFail ==
    /\ mainPc = "connect"
    /\ mainPc' = "exited"
    /\ stderr' = MainCatch(Append(stderr, "Error connecting to the database:"))
    /\ UNCHANGED << config, cursorOpen, cursorPos, stream >>

\* verifyDatabase finds the fact table; main logs, calls streamFacts, which
\* submits the cursor, and pipes the stream, which starts it flowing.
VerifyOk ==
    /\ mainPc = "verify"
    /\ mainPc' = "stream"
    /\ stderr' = Append(stderr, "Exporting data...")
    /\ cursorOpen' = TRUE
    /\ flowing' = TRUE
    /\ UNCHANGED << config, cursorPos, readPc, reading, ended, destroyed, streamError,
                    endEmitted, buffer, out, pushedFacts, stdout >>

VerifyFailIgnored ==
    /\ mainPc = "verify"
    /\ mainPc' = "stream"
    /\ stderr' = Append(stderr, "Error connecting to the database:")
    /\ cursorOpen' = TRUE
    /\ flowing' = TRUE
    /\ UNCHANGED << config, cursorPos, readPc, reading, ended, destroyed, streamError,
                    endEmitted, buffer, out, pushedFacts, stdout >>

\* verifyDatabase throws (the query fails or the table does not exist).
VerifyFail ==
    /\ mainPc = "verify"
    /\ mainPc' = "exited"
    /\ stderr' = MainCatch(Append(stderr, "Error connecting to the database:"))
    /\ UNCHANGED << config, cursorOpen, cursorPos, stream >>

\* ------------------------------------------------------- the Readable
ReadReentrant ==
    /\ mainPc = "stream"
    /\ ~ended /\ ~destroyed
    /\ Len(buffer) < HighWaterMark
    /\ reading' = TRUE
    /\ readPc' = "read"
    /\ UNCHANGED << config, mainPc, stderr, cursorOpen, cursorPos, ended, destroyed,
                    streamError, endEmitted, buffer, flowing, out, pushedFacts, stdout >>

\* The Readable calls read(): it does so when it is not already reading, has
\* not ended or been destroyed, and buffers less than its high water mark.
\* read() runs up to `await cursor.read(batchSize)`.
Read ==
    /\ mainPc = "stream"
    /\ ~reading /\ ~ended /\ ~destroyed
    /\ Len(buffer) < HighWaterMark
    /\ reading' = TRUE
    /\ readPc' = "read"
    /\ UNCHANGED << config, mainPc, stderr, cursorOpen, cursorPos, ended, destroyed,
                    streamError, endEmitted, buffer, flowing, out, pushedFacts, stdout >>

ReadEmptyNoEnd ==
    /\ Alive /\ readPc = "read"
    /\ CursorRead(rows, cursorPos, batchSize) = << >>
    /\ reading' = FALSE
    /\ readPc' = "close"
    /\ UNCHANGED << config, mainPc, stderr, cursorOpen, cursorPos, destroyed, streamError,
                    ended, endEmitted, buffer, flowing, out, pushedFacts, stdout >>

\* cursor.read resolves with no rows: push(null), then `await cursor.close()`.
ReadEmpty ==
    /\ Alive /\ readPc = "read"
    /\ CursorRead(rows, cursorPos, batchSize) = << >>
    /\ ended' = TRUE
    /\ reading' = FALSE
    /\ readPc' = "close"
    /\ UNCHANGED << config, mainPc, stderr, cursorOpen, cursorPos, destroyed, streamError,
                    endEmitted, buffer, flowing, out, pushedFacts, stdout >>

ReadRowsSharedCandidates ==
    /\ Alive /\ readPc = "read"
    /\ LET ids == UNION { { rows[k].predecessor_array.items[c].fact_id :
                               c \in DOMAIN rows[k].predecessor_array.items } : k \in DOMAIN rows }
           pool == JsonArray([j \in 1..Cardinality(ids) |-> Candidate(SortedSeq(ids)[j])])
           own == CursorRead(rows, cursorPos, batchSize)
           batch == [k \in DOMAIN own |-> [own[k] EXCEPT !.predecessor_array = pool]]
           r == ReadBatchFrom(format, batch, 1)
       IN  /\ own # << >>
           /\ cursorPos' = cursorPos + Len(own)
           /\ pushedFacts' = pushedFacts \o r.facts
           /\ reading' = IF r.chunks = << >> THEN reading ELSE FALSE
           /\ buffer' = PushAll(buffer, r.chunks)
    /\ readPc' = "idle"
    /\ UNCHANGED << config, mainPc, stderr, cursorOpen, ended, endEmitted, destroyed,
                    streamError, out, flowing, stdout >>

\* cursor.read resolves with rows: the loop over the batch.  Every push clears
\* state.reading.  A chunk pushed while the stream flows with an empty buffer
\* is written to the pipe's destination at once; a write that returns false
\* pauses the stream and the later chunks are buffered.  An exception reaches
\* the catch: this.destroy(error).
ReadRows ==
    /\ Alive /\ readPc = "read"
    /\ LET batch == CursorRead(rows, cursorPos, batchSize)
           r == ReadBatchFrom(format, batch, 1)
           n == Len(r.chunks)
       IN  /\ batch # << >>
           /\ cursorPos' = cursorPos + Len(batch)
           /\ pushedFacts' = pushedFacts \o r.facts
           /\ reading' = IF n = 0 THEN reading ELSE FALSE
           /\ IF n > 0 /\ flowing /\ buffer = << >>
              THEN \E k \in 1..n, full \in BOOLEAN :
                      /\ k < n => full
                      /\ out' = out \o SubSeq(r.chunks, 1, k)
                      /\ stdout' = WriteAll(format, stdout, SubSeq(r.chunks, 1, k))
                      /\ buffer' = PushAll(buffer, SubSeq(r.chunks, k + 1, n))
                      /\ flowing' = ~full
              ELSE /\ buffer' = PushAll(buffer, r.chunks)
                   /\ UNCHANGED << out, flowing, stdout >>
           /\ IF r.threw
              THEN destroyed' = TRUE /\ streamError' = "TypeError"
              ELSE UNCHANGED << destroyed, streamError >>
    /\ readPc' = "idle"
    /\ UNCHANGED << config, mainPc, stderr, cursorOpen, ended, endEmitted >>

ReadFailRetry ==
    /\ Alive /\ readPc = "read"
    /\ readPc' = "idle"
    /\ reading' = FALSE
    /\ streamError' = "SourceFailure"
    /\ UNCHANGED << config, mainPc, stderr, cursorOpen, cursorPos, destroyed, ended,
                    endEmitted, buffer, flowing, out, pushedFacts, stdout >>

\* cursor.read rejects: the catch destroys the stream with the error.
ReadFail ==
    /\ Alive /\ readPc = "read"
    /\ readPc' = "idle"
    /\ destroyed' = TRUE
    /\ streamError' = "SourceFailure"
    /\ UNCHANGED << config, mainPc, stderr, cursorOpen, cursorPos, reading, ended,
                    endEmitted, buffer, flowing, out, pushedFacts, stdout >>

\* cursor.close() resolves; read() returns.
CloseOk ==
    /\ Alive /\ readPc = "close"
    /\ readPc' = "idle"
    /\ cursorOpen' = FALSE
    /\ UNCHANGED << config, mainPc, stderr, cursorPos, reading, ended, destroyed,
                    streamError, endEmitted, buffer, flowing, out, pushedFacts, stdout >>

\* cursor.close() rejects: the catch calls this.destroy(error), which does
\* nothing on a stream that is destroyed already.
CloseFail ==
    /\ Alive /\ readPc = "close"
    /\ readPc' = "idle"
    /\ IF destroyed THEN UNCHANGED << destroyed, streamError >>
       ELSE destroyed' = TRUE /\ streamError' = "CloseFailure"
    /\ UNCHANGED << config, mainPc, stderr, cursorOpen, cursorPos, reading, ended,
                    endEmitted, buffer, flowing, out, pushedFacts, stdout >>

\* The flowing stream hands the next buffered chunk to the pipe's destination;
\* a write that returns false pauses the stream.
PipeData ==
    /\ mainPc = "stream" /\ flowing /\ ~destroyed
    /\ buffer # << >>
    /\ out' = Append(out, Head(buffer))
    /\ stdout' = Write(format, stdout, Head(buffer))
    /\ buffer' = Tail(buffer)
    /\ flowing' \in BOOLEAN
    /\ UNCHANGED << config, mainPc, stderr, cursorOpen, cursorPos, readPc, reading, ended,
                    destroyed, streamError, endEmitted, pushedFacts >>

\* The destination emits 'drain': the pipe resumes the stream.
PipeDrain ==
    /\ mainPc = "stream" /\ ~flowing
    /\ flowing' = TRUE
    /\ UNCHANGED << config, mainPc, stderr, cursorOpen, cursorPos, readPc, reading, ended,
                    destroyed, streamError, endEmitted, buffer, out, pushedFacts, stdout >>

\* The flowing stream finds its buffer empty after push(null): 'end' is
\* emitted, the stream destroys itself (autoDestroy), main's promise resolves
\* and main calls disconnectFromDatabase, up to `await client.end()`.
StreamEnd ==
    /\ mainPc = "stream" /\ flowing /\ ~destroyed
    /\ ended /\ buffer = << >>
    /\ endEmitted' = TRUE
    /\ destroyed' = TRUE
    /\ mainPc' = "disconnect"
    /\ stdout' = WriteEnd(format, stdout)
    /\ UNCHANGED << config, stderr, cursorOpen, cursorPos, readPc, reading, ended,
                    streamError, buffer, flowing, out, pushedFacts >>

StreamErrorSwallowed ==
    /\ mainPc = "stream" /\ streamError # "none"
    /\ mainPc' = "disconnect"
    /\ UNCHANGED << config, stderr, cursorOpen, cursorPos, stream >>

\* The destroyed stream emits 'error': main's promise rejects and main's
\* catch logs and calls process.exit(1).
StreamError ==
    /\ mainPc = "stream" /\ streamError # "none"
    /\ mainPc' = "exited"
    /\ stderr' = MainCatch(stderr)
    /\ UNCHANGED << config, cursorOpen, cursorPos, stream >>

SinkFailIgnored ==
    /\ mainPc = "stream"
    /\ "Unhandled 'error' event" \notin { stderr[k] : k \in DOMAIN stderr }
    /\ stderr' = Append(stderr, "Unhandled 'error' event")
    /\ UNCHANGED << config, mainPc, cursorOpen, cursorPos, stream >>

\* process.stdout emits 'error' (the reader of the data channel went away):
\* neither pipe nor main listens for it, so it is thrown as an uncaught
\* exception, which is printed and ends the process with status 1.
SinkFail ==
    /\ mainPc = "stream"
    /\ mainPc' = "exited"
    /\ stderr' = Append(stderr, "Unhandled 'error' event")
    /\ UNCHANGED << config, cursorOpen, cursorPos, stream >>

DisconnectedToStdout ==
    /\ mainPc = "disconnect"
    /\ mainPc' = "done"
    /\ stdout' = Append(stdout, Written("Disconnected from PostgreSQL database", << >>))
    /\ UNCHANGED << config, stderr, cursorOpen, cursorPos, readPc, reading, ended, destroyed,
                    streamError, endEmitted, buffer, flowing, out, pushedFacts >>

\* client.end() resolves: disconnectFromDatabase logs and main returns.
Disconnected ==
    /\ mainPc = "disconnect"
    /\ mainPc' = "done"
    /\ stderr' = Append(stderr, "Disconnected from PostgreSQL database")
    /\ UNCHANGED << config, cursorOpen, cursorPos, stream >>

\* client.end() rejects: main's catch.
DisconnectFail ==
    /\ mainPc = "disconnect"
    /\ mainPc' = "exited"
    /\ stderr' = MainCatch(stderr)
    /\ UNCHANGED << config, cursorOpen, cursorPos, stream >>

Next ==
    \/ ParseArgsReturn \/ ParseArgsExit
    \/ ConnectOk \/ ConnectFail \/ VerifyOk \/ VerifyFail
    \/ Read \/ ReadEmpty \/ ReadRows \/ ReadFail \/ CloseOk \/ CloseFail
    \/ PipeData \/ PipeDrain \/ StreamEnd \/ StreamError \/ SinkFail
    \/ Disconnected \/ DisconnectFail

Spec == Init /\ [][Next]_vars

SpecRow == InitRow /\ [][Next]_vars

SpecArgs == InitArgs /\ [][Next]_vars

\* A store that holds what it recorded, some facts with a first reference to
\* a fact it does not hold, read in fact_id order.
InitFair ==
    /\ \E declared \in [FactIds -> UNION { {Recorded(i), Corrupted(i)} : i \in FactIds }] :
          /\ \A i \in FactIds : declared[i] \in {Recorded(i), Corrupted(i)}
          /\ rows = QueryResult(declared, UNION { RecordedEdges(i) : i \in FactIds },
                                [k \in FactIds |-> k])
    /\ argv \in RunArgs
    /\ batchSize \in 1..MaxBatch
    /\ InitRun

\* What the event loop and the environment are assumed to do: main runs on;
\* the Readable calls read() when it wants data; every cursor.read and every
\* cursor.close completes, resolving or rejecting; the sink takes what the
\* flowing stream holds and drains when it is full; pending 'end' and 'error'
\* events are emitted; client.end() completes.  That the sink fails is not
\* assumed.
Fairness ==
    /\ WF_vars(ParseArgsReturn \/ ParseArgsExit)
    /\ WF_vars(ConnectOk \/ ConnectFail)
    /\ WF_vars(VerifyOk \/ VerifyFail)
    /\ WF_vars(Read)
    /\ WF_vars(ReadEmpty \/ ReadRows \/ ReadFail)
    /\ WF_vars(CloseOk \/ CloseFail)
    /\ WF_vars(PipeData)
    /\ WF_vars(PipeDrain)
    /\ WF_vars(StreamEnd)
    /\ WF_vars(StreamError)
    /\ WF_vars(Disconnected \/ DisconnectFail)

SpecFair == InitFair /\ [][Next]_vars /\ Fairness

\* A second row of the fact table with the hash and the type of fact 1 under
\* a surrogate id of its own, and its element in a predecessor_array.
TwinId == NumFacts + 1
TwinRow ==
    [ fact_id |-> TwinId,
      hash |-> HashOf(1),
      type |-> TypeOf(1),
      fields |-> FieldsOf(1),
      predecessors |-> << >>,
      predecessor_array |-> EmptyObject ]
TwinCandidate == [hash |-> HashOf(1), type |-> TypeOf(1), fact_id |-> TwinId]

\* A consistent store read in fact_id order, followed by the twin of fact 1.
\* The last fact declares any references to facts of the store, and its
\* predecessor_array holds, in any order and with repetitions (jsonb_agg has
\* one element per edge row and no ORDER BY), elements of earlier facts and
\* of the twin.
InitDup ==
    /\ \E shape \in { s \in Shapes(NumFacts) :
                        \A k \in DOMAIN s : \A m \in DOMAIN s[k].refs :
                           s[k].refs[m] \in { Ref(j) : j \in 1..(NumFacts - 1) } },
          candidates \in SeqsUpTo({ Candidate(j) : j \in 1..(NumFacts - 1) }
                                    \cup { TwinCandidate }, MaxSeqLen) \ { << >> } :
          rows = [QueryResult([i \in FactIds |-> IF i = NumFacts THEN shape ELSE Recorded(i)],
                              UNION { RecordedEdges(i) : i \in 1..(NumFacts - 1) },
                              [k \in FactIds |-> k])
                    EXCEPT ![NumFacts].predecessor_array = JsonArray(candidates)]
                 \o << TwinRow >>
    /\ argv \in RunArgs
    /\ batchSize = MaxBatch
    /\ InitRun

SpecDup == InitDup /\ [][Next]_vars

\* ============================================================ the claims
IsPrefix(s, t) == Len(s) <= Len(t) /\ SubSeq(t, 1, Len(s)) = s

\* The row of the query result that holds fact i.
RowOf(i) == rows[CHOOSE k \in DOMAIN rows : rows[k].fact_id = i]

\* The rows the cursor has yielded.
Yielded == { k \in DOMAIN rows : k <= cursorPos }

\* Reference p has a candidate of equal type and equal hash in the row's
\* candidate array.
HasMatch(row, p) ==
    /\ row.predecessor_array.kind = "array"
    /\ \E c \in DOMAIN row.predecessor_array.items :
          /\ row.predecessor_array.items[c].type = p.type
          /\ row.predecessor_array.items[c].hash = p.hash

\* Every declared reference of the row, single or element of a sequence, has one.
AllMatch(row) ==
    \A j \in DOMAIN row.predecessors :
       \A m \in DOMAIN row.predecessors[j].refs : HasMatch(row, row.predecessors[j].refs[m])

\* The fact a chunk written to the output declares: the (hash, type) of a
\* json object, the f<id> of a factual block's header; 0 when it names none.
FactOfChunk(c) ==
    IF format = "json"
    THEN IF {"hash", "type"} \subseteq DOMAIN c /\ \E i \in FactIds : Ref(i) = [hash |-> c.hash, type |-> c.type]
         THEN CHOOSE i \in FactIds : Ref(i) = [hash |-> c.hash, type |-> c.type]
         ELSE 0
    ELSE IF Len(c) >= 4 /\ \E i \in FactIds : ToString(i) = c[2] /\ TypeOf(i) = c[4]
         THEN CHOOSE i \in FactIds : ToString(i) = c[2] /\ TypeOf(i) = c[4]
         ELSE 0

\* The facts a chunk written to the output refers to as predecessors: the
\* {hash, type} pairs of a json object, the f<id> tokens of a factual block.
RefsOfChunk(c) ==
    IF format = "json"
    THEN { i \in FactIds : \E j \in DOMAIN c.predecessors :
                              \E m \in DOMAIN c.predecessors[j].refs :
                                 /\ c.predecessors[j].refs[m].hash = HashOf(i)
                                 /\ c.predecessors[j].refs[m].type = TypeOf(i) }
    ELSE { i \in FactIds : \E t \in 6..Len(c) : c[t] = FactName(i) }

\* read() returned without a push: state.reading stays set, and the Readable
\* calls read() again only after a push.
Stalled == readPc = "idle" /\ reading /\ ~ended /\ ~destroyed

\* C1 (resolution correctness): every fact handed to the formatter has exactly
\* the roles its row declared, in the same order, each with the declared
\* cardinality and, for a sequence, the declared length, and each reference is
\* replaced, position by position, by a candidate of that row with the same
\* type and hash, surrogate id included; and a yielded row whose references
\* all have such a candidate is handed to the formatter, unless an earlier row
\* raised an exception.
ResolutionCorrect ==
    /\ \A k \in DOMAIN pushedFacts :
          LET f == pushedFacts[k]
              row == RowOf(f.fact_id)
              d == row.predecessors
              items == row.predecessor_array.items
          IN  /\ Len(f.predecessors) = Len(d)
              /\ \A j \in DOMAIN d :
                    /\ f.predecessors[j].key = d[j].key
                    /\ f.predecessors[j].isArray = d[j].isArray
                    /\ Len(f.predecessors[j].refs) = Len(d[j].refs)
                    /\ \A m \in DOMAIN d[j].refs :
                          \E c \in DOMAIN items :
                             /\ items[c].type = d[j].refs[m].type
                             /\ items[c].hash = d[j].refs[m].hash
                             /\ f.predecessors[j].refs[m] = items[c]
    /\ \A k \in Yielded :
          (/\ AllMatch(rows[k])
           /\ \A e \in 1..k : ResolveRow(rows[e]).st # "throw")
          => \E n \in DOMAIN pushedFacts : pushedFacts[n].fact_id = rows[k].fact_id

\* A fact with a single role and a sequence of two different references was
\* resolved and pushed.
ResolutionWitness ==
    \E k \in DOMAIN pushedFacts :
       LET f == pushedFacts[k]
       IN  /\ Len(f.predecessors) = 2
           /\ ~f.predecessors[1].isArray
           /\ f.predecessors[2].isArray
           /\ Len(f.predecessors[2].refs) = 2
           /\ f.predecessors[2].refs[1].fact_id # f.predecessors[2].refs[2].fact_id

\* C2 (drop, non-emission): a row with a declared reference that has no
\* candidate equal in both type and hash is never handed to the formatter, and
\* no chunk that is buffered or written declares its fact, in either format.
DroppedNeverEmitted ==
    \A k \in DOMAIN rows :
       ~AllMatch(rows[k]) =>
          /\ \A n \in DOMAIN pushedFacts : pushedFacts[n].fact_id # rows[k].fact_id
          /\ \A n \in DOMAIN buffer : FactOfChunk(buffer[n]) # rows[k].fact_id
          /\ \A n \in DOMAIN out : FactOfChunk(out[n]) # rows[k].fact_id

\* The cursor has yielded, and read() has processed, a row whose first role
\* resolves and whose second role holds a reference that a candidate of the
\* row equals in hash only.
DroppedWitness ==
    \E k \in Yielded :
       LET row == rows[k]
       IN  /\ readPc = "idle"
           /\ streamError = "none"
           /\ Len(row.predecessors) = 2
           /\ ResolveRole(row.predecessor_array, row.predecessors[1]).st = "ok"
           /\ \E m \in DOMAIN row.predecessors[2].refs :
                 /\ ~HasMatch(row, row.predecessors[2].refs[m])
                 /\ \E c \in DOMAIN row.predecessor_array.items :
                       row.predecessor_array.items[c].hash = row.predecessors[2].refs[m].hash

\* C3 (drop is local and silent): a row with an unresolvable reference raises
\* no error, whatever candidate value the query supplied for it, and does not
\* keep the pipeline from reading on: the stream is never destroyed by an
\* exception of the resolver, and read() never returns leaving the Readable
\* waiting for a push that will not come.
DropIsLocalAndSilent ==
    /\ streamError # "TypeError"
    /\ ~Stalled

\* C4 (no dangling reference): in the output of a run that ended, every fact
\* an emitted fact refers to as a predecessor is declared by an emitted fact
\* of the same output.
NoDanglingReference ==
    endEmitted =>
       \A k \in DOMAIN out :
          \A p \in RefsOfChunk(out[k]) : \E j \in DOMAIN out : FactOfChunk(out[j]) = p

\* C5 (order preservation): in the factual output, the block that declares a
\* referenced predecessor comes strictly before the block that refers to it,
\* in whatever order the query yields the rows.  Stated for stores without an
\* unresolvable reference, where every referenced fact is emitted.
OrderPreservation ==
    (format = "factual" /\ \A r \in DOMAIN rows : AllMatch(rows[r])) =>
       \A k \in DOMAIN out :
          \A p \in RefsOfChunk(out[k]) : \E j \in 1..(k - 1) : FactOfChunk(out[j]) = p

\* What read() pushes for the resolvable rows among rs, in order.
RECURSIVE ResolvedChunks(_, _)
ResolvedChunks(fmt, rs) ==
    IF rs = << >> THEN << >>
    ELSE LET r == ResolveRow(Head(rs))
         IN  (IF r.st = "ok" THEN << Map(fmt, r.factInfo) >> ELSE << >>)
             \o ResolvedChunks(fmt, Tail(rs))

\* C6 (emission order equals source order): what the sink has received is
\* always a prefix of the resolvable rows the cursor has yielded, rendered, in
\* the cursor's order; while the stream is intact the received and the
\* buffered chunks together are such a prefix; and once 'end' is emitted the
\* sink has received exactly the resolvable rows, in the cursor's order.
EmissionOrder ==
    /\ IsPrefix(out, ResolvedChunks(format, SubSeq(rows, 1, cursorPos)))
    /\ ~destroyed => IsPrefix(out \o buffer, ResolvedChunks(format, SubSeq(rows, 1, cursorPos)))
    /\ endEmitted => out = ResolvedChunks(format, rows)

\* A run of several batches ended with a row dropped between two rows that
\* were emitted or after them.
EmissionOrderWitness ==
    /\ endEmitted
    /\ batchSize < Len(rows)
    /\ 1 < Len(out)
    /\ Len(out) < Len(rows)

\* C7 (surrogate-id absence): every object of the json output has exactly the
\* keys hash, type, predecessors, fields, and every predecessor in it, single
\* or element of a sequence, exactly the keys hash and type.
SurrogateIdAbsent ==
    format = "json" =>
       \A k \in DOMAIN (out \o buffer) :
          LET c == (out \o buffer)[k]
          IN  /\ DOMAIN c = {"hash", "type", "predecessors", "fields"}
              /\ \A j \in DOMAIN c.predecessors :
                    \A m \in DOMAIN c.predecessors[j].refs :
                       DOMAIN c.predecessors[j].refs[m] = {"hash", "type"}

\* A json object with a single predecessor and a sequence of two was written.
SurrogateIdWitness ==
    /\ format = "json"
    /\ \E k \in DOMAIN out :
          /\ Len(out[k].predecessors) = 2
          /\ Len(out[k].predecessors[1].refs) = 1
          /\ Len(out[k].predecessors[2].refs) = 2

\* The run can emit nothing more and has raised no error: 'end' was emitted,
\* or the Readable waits for a push with nothing buffered.
QuietWithoutError == streamError = "none" /\ (endEmitted \/ (Stalled /\ buffer = << >>))

\* C8 (batch-size independence): whatever the batch size, a run that has come
\* to rest without an error has emitted what a run emits that reads all the
\* rows in one batch.  Stated for stores no row of which raises an exception.
BatchSizeIndependence ==
    (QuietWithoutError /\ ~ReadBatchFrom(format, rows, 1).threw)
       => out = ReadBatchFrom(format, rows, 1).chunks

\* The identity a written chunk gives its fact: the (hash, type) of a json
\* object; for a factual block the f<id>: type of its header, with the hash
\* of the fact the store holds under that id.
KeyOfChunk(c) ==
    IF format = "json"
    THEN IF {"hash", "type"} \subseteq DOMAIN c THEN << c.hash, c.type >> ELSE << "", "" >>
    ELSE IF Len(c) >= 4 /\ \E i \in FactIds : ToString(i) = c[2]
         THEN << HashOf(CHOOSE i \in FactIds : ToString(i) = c[2]), c[4] >>
         ELSE << "", "" >>

\* C9 (format equivalence): for a store without unresolvable references, a
\* run that ended has written, in either format, one chunk per row, in the
\* order of the rows, whose identity is the (hash, type) of the row: the json
\* run and the factual run over the same rows emit the same facts in the same
\* order.
FormatEquivalence ==
    (endEmitted /\ \A r \in DOMAIN rows : AllMatch(rows[r])) =>
       /\ Len(out) = Len(rows)
       /\ \A k \in DOMAIN out : KeyOfChunk(out[k]) = << rows[k].hash, rows[k].type >>

\* A factual run over a store without unresolvable references ended with a
\* block for every row.
FormatEquivalenceWitness ==
    /\ endEmitted
    /\ format = "factual"
    /\ \A r \in DOMAIN rows : AllMatch(rows[r])
    /\ Len(out) = NumFacts
    /\ \E k \in DOMAIN out : RefsOfChunk(out[k]) # {}

\* C10 (cursor closed on every failure path): a run that was terminated by a
\* fatal condition has no cursor left open.
CursorClosedOnFailure == mainPc = "exited" => ~cursorOpen

\* C11 (a batch read failure is fatal, without retry): once a cursor.read has
\* failed, no step requests a further batch, moves the cursor, or hands
\* anything more to the sink or to process.stdout, and main never gets to
\* disconnectFromDatabase or to its return: the only way on is main's catch,
\* which logs the error and exits with status 1.
ReadFailureIsFatal ==
    [][streamError = "SourceFailure" =>
          /\ readPc' = "idle"
          /\ cursorPos' = cursorPos
          /\ pushedFacts' = pushedFacts
          /\ out' = out
          /\ stdout' = stdout
          /\ mainPc' \in {"stream", "exited"}
          /\ "Disconnected from PostgreSQL database" \notin { stderr'[k] : k \in DOMAIN stderr' }
          /\ (mainPc' = "exited" /\ mainPc = "stream" /\ stderr' # stderr
                 => stderr'[Len(stderr')] \in {"Error:", "Unhandled 'error' event"})]_vars

\* A read failed after an earlier batch had been emitted and before the cursor
\* was exhausted, and the run exited through main's catch.
ReadFailureWitness ==
    /\ streamError = "SourceFailure"
    /\ mainPc = "exited"
    /\ stderr[Len(stderr)] = "Error:"
    /\ out # << >>
    /\ cursorPos < Len(rows)

\* C12 (end of stream): a cursor.read that resolves with an empty batch calls
\* push(null) and cursor.close(); push(null) is called for an empty batch only;
\* after it cursor.read is never called again and cursor.close is not called a
\* second time; and 'end' reaches the sink only after push(null), when
\* everything pushed before has been handed over.
EndOfStream ==
    [][/\ (/\ readPc = "read" /\ readPc' # "read"
            /\ destroyed' = destroyed
            /\ CursorRead(rows, cursorPos, batchSize) = << >>)
              => (ended' /\ readPc' = "close")
       /\ (ended' /\ ~ended)
              => (/\ readPc = "read"
                  /\ CursorRead(rows, cursorPos, batchSize) = << >>
                  /\ readPc' = "close")
       /\ (readPc' = "close" /\ readPc # "close") => ~ended
       /\ ended => (readPc' # "read" /\ cursorPos' = cursorPos)
       /\ (endEmitted' /\ ~endEmitted) => (ended /\ buffer = << >> /\ out' = out)]_vars

\* A run of several batches received the empty batch, emitted 'end' after the
\* facts, closed the cursor and returned.
EndOfStreamWitness ==
    /\ ended /\ endEmitted
    /\ ~cursorOpen /\ readPc = "idle"
    /\ mainPc = "done"
    /\ batchSize < Len(rows)
    /\ out # << >>

\* C13 (backpressure): read() issues a cursor.read only when every record
\* pushed from the earlier batches has been handed to the sink, that is when
\* the Readable buffers nothing.
Backpressure ==
    [][(readPc' = "read" /\ readPc # "read") => buffer = << >>]_vars

\* C14 (bounded window): the rows of at most one batch are held at a time,
\* and the rendered records the sink has not yet taken are at most one batch.
BoundedWindow ==
    /\ Len(CursorRead(rows, cursorPos, batchSize)) <= batchSize
    /\ Len(buffer) <= batchSize

\* The lines of the diagnostic channel.
Logged == { stderr[k] : k \in DOMAIN stderr }

\* connectToDatabase failed: client.connect() or verifyDatabase threw.
SetupFailed == "Error connecting to the database:" \in Logged

\* process.exit(1), or the exit of an uncaught exception: status 1; main
\* returned: status 0.
ExitedNonZero == mainPc = "exited"
ExitedZero == mainPc = "done"

\* C15 (a setup failure produces no output): when connecting fails or the
\* fact table is absent, the cursor is never submitted or read, nothing is
\* handed to the sink and nothing, no array delimiter either, is written to
\* process.stdout, and the run has exited with a non-zero status.
SetupFailureNoOutput ==
    SetupFailed =>
       /\ ~cursorOpen /\ cursorPos = 0 /\ readPc = "idle"
       /\ out = << >> /\ buffer = << >>
       /\ stdout = << >>
       /\ "Exporting data..." \notin Logged
       /\ ExitedNonZero

\* The connection was made and the fact table was found absent, in a json run.
SetupFailureWitness ==
    /\ SetupFailed
    /\ format = "json"
    /\ stderr[1] = "Connected to PostgreSQL database"

\* C16 (a setup failure is reported once): the diagnostic channel holds
\* exactly one error report for the failure.
SetupReportedOnce ==
    SetupFailed =>
       Cardinality({ k \in DOMAIN stderr :
                       stderr[k] \in {"Error connecting to the database:", "Error:"} }) = 1

\* A fatal condition was hit: setup failed, the stream was destroyed with an
\* error (a failed batch read, an exception of the resolver or of the
\* formatter in read(), a failed close), or the sink failed.
FatalHit ==
    \/ SetupFailed
    \/ streamError # "none"
    \/ "Unhandled 'error' event" \in Logged

\* C17 (every fatal condition ends the run with a non-zero status and an
\* error message): a run that hit a fatal condition never reaches
\* disconnectFromDatabase, the 'Disconnected' message or main's return, and
\* when it has exited the last line of the diagnostic channel is its error.
FatalExitsNonZero ==
    FatalHit =>
       /\ mainPc \in {"stream", "exited"}
       /\ ~ExitedZero
       /\ "Disconnected from PostgreSQL database" \notin Logged
       /\ mainPc = "stream" => (streamError # "none" /\ ~endEmitted)
       /\ ExitedNonZero => stderr[Len(stderr)] \in {"Error:", "Unhandled 'error' event"}

\* An exception raised inside read() after a fact had been written ended the
\* run through main's catch.
FatalExitWitness ==
    /\ streamError = "TypeError"
    /\ ExitedNonZero
    /\ stderr[Len(stderr)] = "Error:"
    /\ stdout # << >>

\* C18 (PlainGraph framing): process.stdout receives the json output as one
\* array, write by write: the k-th write is the k-th resolved fact of the
\* cursor's order, whole, preceded by the opening bracket if it is the first
\* and by exactly one comma otherwise; the closing bracket is written once,
\* after the last resolved fact, when and only when 'end' was emitted (for an
\* export without facts after a lone opening bracket); until then, and for
\* good after a fatal failure, the output is the stream cut after a whole
\* fact.
PlainGraphFraming ==
    format = "json" =>
       LET n == Len(out)
           all == ResolvedChunks(format, rows)
           closing == { k \in DOMAIN stdout : stdout[k].text = "]" }
       IN  /\ n <= Len(all)
           /\ \A k \in 1..n :
                 /\ k <= Len(stdout)
                 /\ stdout[k].text = (IF k = 1 THEN "[" ELSE ",")
                 /\ stdout[k].data = << all[k] >>
           /\ ~endEmitted => (Len(stdout) = n /\ closing = {})
           /\ endEmitted =>
                 /\ n = Len(all)
                 /\ closing = { Len(stdout) }
                 /\ stdout[Len(stdout)].data = << >>
                 /\ IF n = 0 THEN stdout = << Written("[", << >>), Written("]", << >>) >>
                    ELSE Len(stdout) = n + 1

\* A json run wrote two facts or more and closed the array.
PlainGraphFramingWitness ==
    /\ format = "json"
    /\ endEmitted
    /\ Len(stdout) >= 3
    /\ stdout[Len(stdout)].text = "]"

\* A json run over an empty fact table wrote the empty array.
EmptyExportWitness ==
    /\ format = "json"
    /\ rows = << >>
    /\ Len(stdout) = 2

\* The first line of a block: let f<surrogateId>: <factType> = {
HeaderLine(fact) == << "let f", ToString(fact.fact_id), ": ", fact.type, " = ", "{", "\n" >>

\* The last line of a block, a lone closing brace, and the blank line after it.
ClosingLines == << "\n", "}", "\n", "\n" >>

\* The number of line ends in a text.
LineEnds(text) == Cardinality({ t \in DOMAIN text : text[t] = "\n" })

\* C19 (DeclarativeText block well-formedness): every block written by a
\* factual run starts with the header line of its fact, holds one line per
\* field and per role, and ends with a line holding only the closing brace
\* and a blank line; a fact without fields and roles included.
FactualBlockWellFormed ==
    format = "factual" =>
       \A k \in DOMAIN out :
          LET block == out[k]
              fact == pushedFacts[k]
              entries == Len(fact.fields) + Len(fact.predecessors)
          IN  /\ Len(block) >= Len(HeaderLine(fact)) + Len(ClosingLines)
              /\ SubSeq(block, 1, Len(HeaderLine(fact))) = HeaderLine(fact)
              /\ SubSeq(block, Len(block) - 3, Len(block)) = ClosingLines
              /\ LineEnds(block) = 1 + entries + 2

\* One entry of a block as the format lays it out, without separator: a
\* field as key: "value", a single role as role: f<id>, a sequence role as
\* role: [f<id1>, f<id2>, ...].
FieldEntry(field) ==
    << "    ", field.key, ": ",
       IF field.value.kind = "string" THEN "\"" \o field.value.text \o "\""
       ELSE field.value.text >>

RECURSIVE IdList(_)
IdList(refs) ==
    IF refs = << >> THEN << >>
    ELSE << "f" \o ToString(refs[1].fact_id) >>
         \o (IF Len(refs) > 1 THEN << ", " >> ELSE << >>)
         \o IdList(Tail(refs))

RoleEntry(role) ==
    << "    ", role.key, ": " >>
    \o (IF role.isArray THEN << "[" >> \o IdList(role.refs) \o << "]" >>
        ELSE << "f" \o ToString(role.refs[1].fact_id) >>)

\* The entries of a fact, the fields first, each group in its own order, a
\* comma and a line end after every entry but the last.
RECURSIVE Separated(_)
Separated(entries) ==
    IF entries = << >> THEN << >>
    ELSE Head(entries)
         \o (IF Len(entries) > 1 THEN << ",", "\n" >> ELSE << >>)
         \o Separated(Tail(entries))

EntryLayout(fact) ==
    Separated([i \in DOMAIN fact.fields |-> FieldEntry(fact.fields[i])]
              \o [j \in DOMAIN fact.predecessors |-> RoleEntry(fact.predecessors[j])])

Vacuous(row) ==
    \A j \in DOMAIN row.predecessors :
       row.predecessors[j].isArray /\ row.predecessors[j].refs = << >>

\* C21 (vacuous resolution): a row without roles, or whose roles are all
\* empty sequences, resolves whatever its candidate value is, the '{}' of a
\* fact without edge rows included; once the cursor has yielded it, it has
\* been handed to the formatter with its roles as declared, and its rendering
\* keeps every empty sequence: a role with an empty array in json, the entry
\* role: [] in factual.
VacuousResolution ==
    \A k \in DOMAIN rows :
       Vacuous(rows[k]) =>
          /\ ResolveRow(rows[k]).st = "ok"
          /\ k \in Yielded =>
                \E n \in DOMAIN pushedFacts :
                   LET f == pushedFacts[n]
                   IN  /\ f.fact_id = rows[k].fact_id
                       /\ f.predecessors = rows[k].predecessors
                       /\ Len(stripIdFromFact(f).predecessors) = Len(rows[k].predecessors)
                       /\ \A j \in DOMAIN f.predecessors :
                             /\ stripIdFromFact(f).predecessors[j] = Multiple(f.predecessors[j].key, << >>)
                             /\ \E t \in 1..(Len(writeFactual(f)) - 4) :
                                   SubSeq(writeFactual(f), t, t + 4)
                                     = << "    ", f.predecessors[j].key, ": ", "[", "]" >>
                       /\ (endEmitted => \E c \in DOMAIN out : out[c] = Map(format, f))

\* A fact without edge rows, whose candidate value is '{}', declared one
\* empty sequence role and was written by a run that ended.
VacuousResolutionWitness ==
    /\ endEmitted
    /\ \E k \in DOMAIN rows :
          /\ rows[k].predecessor_array = EmptyObject
          /\ rows[k].predecessors = << Multiple("prior", << >>) >>
          /\ \E c \in DOMAIN out : FactOfChunk(out[c]) = rows[k].fact_id

\* The command line is six pairs of a name that starts with two dashes and a
\* value.
IsSixPairs(args) ==
    /\ Len(args) = 2 * 6
    /\ \A i \in 1..6 : Len(args[2 * i - 1]) >= 2 /\ SubSeq(args[2 * i - 1], 1, 2) = << "-", "-" >>

\* The value given for --format, the last if it is given more than once;
\* "undefined" if it is not given.
FormatGiven(args) ==
    LET given == { i \in 1..6 : args[2 * i - 1] = << "-", "-", "format" >> }
    IN  IF given = {} THEN "undefined"
        ELSE Str(args[2 * (CHOOSE i \in given : \A j \in given : j <= i)])

Accepted(args) == IsSixPairs(args) /\ FormatGiven(args) \in {"json", "factual"}

\* C22 (format selector): parseArgs returns, and main goes on to connect,
\* only for six --name value pairs whose format is exactly json or factual,
\* and then with that format; for every other command line the run has
\* written one message to the diagnostic channel and exited with status 1
\* without a connection attempt, a cursor, or any output.
FormatSelector ==
    mainPc # "parse" =>
       /\ Accepted(argv) => (format = FormatGiven(argv) /\ "Usage:" \notin Logged
                                                        /\ "Invalid format." \notin Logged)
       /\ ~Accepted(argv) =>
             /\ ExitedNonZero
             /\ stderr \in { << "Usage:" >>, << "Invalid format." >> }
             /\ stderr = << "Usage:" >> <=> ~IsSixPairs(argv)
             /\ format = "undefined"
             /\ ~cursorOpen /\ cursorPos = 0
             /\ stdout = << >>

\* Six pairs that give --format twice, json first and xml last, were rejected
\* for their format.
FormatSelectorWitness ==
    /\ ExitedNonZero
    /\ stderr = << "Invalid format." >>
    /\ argv[1] = << "-", "-", "format" >>
    /\ argv[2] = << "json" >>
    /\ FormatGiven(argv) = "xml"

\* Every message the tool writes.
Messages ==
    { "Usage:", "Invalid format.", "Connected to PostgreSQL database",
      "Error connecting to the database:", "Exporting data...",
      "Disconnected from PostgreSQL database", "Error:", "Unhandled 'error' event" }

\* C23 (channel separation): every write to process.stdout is a rendered
\* fact of the export, with an array delimiter before it in json, or a lone
\* array delimiter in json; no message is among them; and the status and the
\* error messages of the path the run has taken are on the diagnostic
\* channel.
ChannelSeparation ==
    /\ \A k \in DOMAIN stdout :
          /\ stdout[k].text \notin Messages
          /\ stdout[k].text \in (IF format = "json" THEN {"[", ",", "]"} ELSE {""})
          /\ \/ format = "json" /\ stdout[k].data = << >>
             \/ \E c \in DOMAIN ResolvedChunks(format, rows) :
                   stdout[k].data = << ResolvedChunks(format, rows)[c] >>
    /\ Logged \subseteq Messages
    /\ mainPc \in {"verify", "stream", "disconnect", "done"}
          => "Connected to PostgreSQL database" \in Logged
    /\ mainPc \in {"stream", "disconnect", "done"} => "Exporting data..." \in Logged
    /\ ExitedZero => stderr[Len(stderr)] = "Disconnected from PostgreSQL database"
    /\ ExitedNonZero => stderr # << >>

\* A factual run wrote blocks, dropped a row and returned.
ChannelSeparationWitness ==
    /\ ExitedZero
    /\ format = "factual"
    /\ Len(stdout) >= 2
    /\ Len(stdout) < Len(rows)
    /\ Len(stderr) = 3

\* process.stdout failed.
SinkFailed == "Unhandled 'error' event" \in Logged

\* C24 (a sink failure is fatal): the step in which process.stdout fails ends
\* the run with a non-zero status, requesting no batch and emitting no fact,
\* and no step follows it: nothing is read, resolved, pushed or written after
\* the failure, and the run does not go on to a successful end.
SinkFailureIsFatal ==
    [][/\ ~SinkFailed
       /\ SinkFailed' =>
             /\ mainPc' = "exited"
             /\ readPc' = readPc /\ cursorPos' = cursorPos
             /\ pushedFacts' = pushedFacts /\ buffer' = buffer
             /\ out' = out /\ stdout' = stdout
             /\ "Disconnected from PostgreSQL database" \notin { stderr'[k] : k \in DOMAIN stderr' }]_vars

\* The sink failed after a fact had been written, with rows left in the
\* cursor and a batch read outstanding.
SinkFailureWitness ==
    /\ SinkFailed
    /\ ExitedNonZero
    /\ stdout # << >>
    /\ cursorPos < Len(rows)
    /\ readPc = "read"

\* The value of a field is one the formats accept: here, a string.
Supported(value) == value.kind = "string"

\* C25 (an unsupported field value is fatal): a fact with a field whose value
\* is a nested object is never written to the output, in either format: no
\* chunk handed to the sink renders such a fact.
UnsupportedFieldIsFatal ==
    \A k \in DOMAIN out :
       \A i \in DOMAIN pushedFacts[k].fields : Supported(pushedFacts[k].fields[i].value)

\* The positions of the output that declare fact i.
Deliveries(i) == { j \in DOMAIN out : FactOfChunk(out[j]) = i }

\* C26 (complete, exactly-once export): the formatter is invoked only for
\* rows whose references all resolve, and once for each; and in a run that
\* ended successfully the cursor was read to its end and every row whose
\* references all resolve was delivered to the sink, and written to
\* process.stdout, exactly once, with nothing else beside them.
ExactlyOnce ==
    /\ \A n \in DOMAIN pushedFacts :
          /\ AllMatch(RowOf(pushedFacts[n].fact_id))
          /\ \A m \in DOMAIN pushedFacts : pushedFacts[m].fact_id = pushedFacts[n].fact_id => m = n
    /\ endEmitted =>
          /\ cursorPos = Len(rows)
          /\ \A k \in DOMAIN rows :
                Cardinality(Deliveries(rows[k].fact_id)) = (IF AllMatch(rows[k]) THEN 1 ELSE 0)
          /\ Len(out) = Cardinality({ k \in DOMAIN rows : AllMatch(rows[k]) })
          /\ Len(out) = Cardinality({ k \in DOMAIN stdout : stdout[k].data # << >> })
          /\ \A j \in DOMAIN out : stdout[j].data = << out[j] >>

\* A run of several batches returned with two facts delivered and one row
\* dropped.
ExactlyOnceWitness ==
    /\ ExitedZero
    /\ batchSize < Len(rows)
    /\ \E k \in DOMAIN rows : ~AllMatch(rows[k])
    /\ Len(out) = Len(rows) - 1

\* main has observed 'end': the pipeline has signalled its successful
\* completion.
SuccessSignalled == endEmitted

\* C27 (draining precedes closed): when main has observed 'end', and so when
\* disconnectFromDatabase calls client.end(), cursor.close() has completed:
\* it is not outstanding and the cursor is not open.
DrainingPrecedesClosed ==
    (SuccessSignalled \/ mainPc \in {"disconnect", "done"}) =>
       (readPc # "close" /\ ~cursorOpen)

\* After the pipeline reached a terminal state, success signalled or the
\* stream destroyed with an error, no batch is read and no fact is pushed or
\* handed to the sink.
TerminalAbsorbing ==
    [][(SuccessSignalled \/ streamError # "none") =>
          /\ readPc' # "read" /\ cursorPos' = cursorPos
          /\ pushedFacts' = pushedFacts /\ buffer' = buffer /\ out' = out]_vars

\* The stream never both signals success and raises an error, and a run
\* never logs both 'Disconnected' and the error of main's catch.
TerminalExclusive ==
    /\ ~(SuccessSignalled /\ streamError # "none")
    /\ ~("Disconnected from PostgreSQL database" \in Logged /\ "Error:" \in Logged)

\* cursor.close(), called after the final empty batch, does not fail once
\* success has been signalled.
NoCloseFailureAfterSuccess ==
    [][(readPc = "close" /\ readPc' = "idle" /\ cursorOpen') => ~SuccessSignalled]_vars

\* C28 (terminal states are absorbing and exclusive): the three together.
TerminalStates ==
    /\ TerminalAbsorbing
    /\ []TerminalExclusive
    /\ NoCloseFailureAfterSuccess

\* C29 (one batch in flight): while a cursor.read is outstanding the Readable
\* is reading and calls read() no more; read() is entered only when no
\* invocation is awaiting or iterating, and then every row the cursor has
\* yielded has been resolved and, if resolved, pushed; and the cursor moves
\* only when the one outstanding cursor.read resolves, by the rows of that
\* batch, which are resolved and pushed in the same step.
OneBatchInFlight ==
    [][/\ readPc = "read" => (reading /\ ~ended)
       /\ (readPc' = "read" /\ readPc # "read") =>
             /\ readPc = "idle" /\ ~reading
             /\ cursorPos' = cursorPos
             /\ pushedFacts = ReadBatchFrom(format, SubSeq(rows, 1, cursorPos), 1).facts
       /\ cursorPos' # cursorPos =>
             /\ readPc = "read" /\ readPc' = "idle"
             /\ cursorPos' = cursorPos + Len(CursorRead(rows, cursorPos, batchSize))
             /\ pushedFacts' = ReadBatchFrom(format, SubSeq(rows, 1, cursorPos'), 1).facts]_vars

\* The cursor.read of a later batch is outstanding while a record of an
\* earlier batch is still buffered.
OneBatchInFlightWitness ==
    /\ readPc = "read"
    /\ cursorPos > 0
    /\ buffer # << >>
    /\ pushedFacts # << >>

\* The surrogate ids of the candidates of a row.
CandidateIds(row) ==
    { row.predecessor_array.items[c].fact_id : c \in DOMAIN row.predecessor_array.items }

\* C30 (no cross-fact candidate leakage): every fact handed to the formatter
\* is what resolving its own row alone yields, whatever the other rows hold
\* and wherever the row stands; every surrogate id among its predecessors is
\* the id of a candidate of that row; and the rows are left as they were.
NoCandidateLeakage ==
    /\ \A n \in DOMAIN pushedFacts :
          LET f == pushedFacts[n]
              row == RowOf(f.fact_id)
          IN  /\ ResolveRow(row).st = "ok"
              /\ f = ResolveRow(row).factInfo
              /\ \A j \in DOMAIN f.predecessors :
                    \A m \in DOMAIN f.predecessors[j].refs :
                       f.predecessors[j].refs[m].fact_id \in CandidateIds(row)
    /\ \A k \in DOMAIN rows :
          rows[k].fact_id < NumFacts => rows[k] = Row([i \in FactIds |-> Recorded(i)],
                                                      UNION { RecordedEdges(i) : i \in FactIds },
                                                      rows[k].fact_id)

\* Every row was read; the last one declares a reference that a candidate of
\* another row answers and none of its own, and it alone was not handed to
\* the formatter.
NoCandidateLeakageWitness ==
    /\ readPc = "idle" /\ cursorPos = Len(rows) /\ rows # << >>
    /\ LET row == rows[Len(rows)]
       IN  /\ \E j \in DOMAIN row.predecessors :
                 \E m \in DOMAIN row.predecessors[j].refs :
                    /\ ~HasMatch(row, row.predecessors[j].refs[m])
                    /\ \E k \in DOMAIN rows : HasMatch(rows[k], row.predecessors[j].refs[m])
           /\ row.predecessor_array.kind = "array"
           /\ Len(pushedFacts) = Len(rows) - 1

\* The run is over: main returned after the connection was ended, or the
\* process exited.
Terminated == mainPc \in {"done", "exited"}

\* C31 (termination): when every batch read completes and the sink takes
\* every record handed to it, the run eventually is over.
Termination == <>Terminated

\* The six option names of the usage message.
OptionNames == {"host", "port", "database", "user", "password", "format"}

\* Six --name value pairs in which each of the six names is given exactly
\* once.
EachNameOnce(args) ==
    /\ IsSixPairs(args)
    /\ \A n \in OptionNames :
          Cardinality({ i \in 1..6 : args[2 * i - 1] = << "-", "-", n >> }) = 1

\* The argument that follows the name n.
ValueAfter(args, n) ==
    Str(args[2 * (CHOOSE i \in 1..6 : args[2 * i - 1] = << "-", "-", n >>)])

\* parseArgs returned to main: the run left it without either of its two
\* messages.
ParseArgsReturned ==
    mainPc # "parse" /\ "Usage:" \notin Logged /\ "Invalid format." \notin Logged

\* C32 (complete options): when parseArgs has returned, the six names were
\* each given once and the options object holds for each the value that
\* followed it; a command line that does not give each of the six names
\* exactly once was rejected with the usage message and exit status 1.
CompleteOptions ==
    /\ ParseArgsReturned =>
          /\ EachNameOnce(argv)
          /\ \A n \in OptionNames : OptionOf(Options(argv), n) = ValueAfter(argv, n)
    /\ (mainPc # "parse" /\ ~EachNameOnce(argv)) =>
          (ExitedNonZero /\ stderr = << "Usage:" >>)

\* The positions of the row's candidate array whose element has the type and
\* the hash of reference p.
MatchesOf(row, p) ==
    { c \in DOMAIN row.predecessor_array.items :
         /\ row.predecessor_array.items[c].type = p.type
         /\ row.predecessor_array.items[c].hash = p.hash }

\* C33 (deterministic resolution): every reference of every fact handed to
\* the formatter was replaced by the first element, in array order, of its
\* row's candidate array that has the reference's type and hash, also when
\* several elements with different surrogate ids have them; and the output of
\* a run that has ended is determined by the row sequence and the format.
DeterministicResolution ==
    /\ \A n \in DOMAIN pushedFacts :
          LET f == pushedFacts[n]
              row == RowOf(f.fact_id)
          IN  /\ DOMAIN f.predecessors = DOMAIN row.predecessors
              /\ \A j \in DOMAIN row.predecessors :
                    /\ DOMAIN f.predecessors[j].refs = DOMAIN row.predecessors[j].refs
                    /\ \A m \in DOMAIN row.predecessors[j].refs :
                          LET matches == MatchesOf(row, row.predecessors[j].refs[m])
                          IN  /\ matches # {}
                              /\ f.predecessors[j].refs[m] =
                                    row.predecessor_array.items[Min(matches)]
    /\ endEmitted => out = ResolvedChunks(format, rows)

\* A fact was handed to the formatter with a reference for which its row
\* holds two candidates of different surrogate ids, resolved to the first.
DeterministicResolutionWitness ==
    \E n \in DOMAIN pushedFacts :
       LET f == pushedFacts[n]
           row == RowOf(f.fact_id)
       IN  \E j \in DOMAIN row.predecessors : \E m \in DOMAIN row.predecessors[j].refs :
              LET matches == MatchesOf(row, row.predecessors[j].refs[m])
              IN  /\ \E c \in matches, d \in matches :
                        /\ c < d
                        /\ row.predecessor_array.items[c].fact_id #
                              row.predecessor_array.items[d].fact_id
                  /\ f.predecessors[j].refs[m] = row.predecessor_array.items[Min(matches)]

====
